---- MODULE Spec2Model ----
(***************************************************************************)
(* Model of front_end/panels/issues/CorsIssueDetailsView.ts: the view that *)
(* renders the affected-requests table of an aggregated CORS issue.        *)
(*                                                                         *)
(* The DOM container `affectedResources` is a sequence of rows, a row is a *)
(* record with its class and the sequence of its cells.  A call that can   *)
(* throw is modelled by a result record: Return(v) or Throw(message).      *)
(* An optional value (T | undefined) is <<>> for undefined and <<v>> for v.*)
(***************************************************************************)
EXTENDS Integers, Sequences, FiniteSets, TLC

VARIABLES
    issue,                  \* this.issue.getCorsIssues(), in iteration order
    affectedResources,      \* rows of this.affectedResources
    affectedResourcesCount, \* last value given to updateAffectedResourceCount
    lastCall                \* history: input and outcome of the last update()

vars == <<issue, affectedResources, affectedResourcesCount, lastCall>>

\* Largest number of issues the aggregated issue collects in Spec.
MaxIssues == 3

(***************************************************************************)
(* Values                                                                  *)
(***************************************************************************)
None == <<>>
Some(v) == <<v>>

\* JavaScript `opt ?? fallback`
Coalesce(opt, fallback) == IF opt = None THEN fallback ELSE opt[1]

Return(v) == [threw |-> FALSE, value |-> v]
Throw(message) == [threw |-> TRUE, value |-> message]

\* String.prototype.includes: some substring of s equals sub.
includes(s, sub) ==
    \E i \in 1..(Len(s) - Len(sub) + 1) : SubSeq(s, i, i + Len(sub) - 1) = sub

\* IssuesManager.CorsIssue.IssueCode members the two switches handle.
HandledIssueCodes ==
    { "InvalidHeaderValues", "WildcardOriginNotAllowed", "PreflightResponseInvalid",
      "OriginMismatch", "AllowCredentialsRequired", "InsecurePrivateNetwork",
      "InsecurePrivateNetworkPreflight", "MethodDisallowedByPreflightResponse",
      "HeaderDisallowedByPreflightResponse", "RedirectContainsCredentials" }

\* The members left to the default branch (type argument of assertUnhandled).
UnhandledIssueCodes ==
    { "DisallowedByMode", "CorsDisabledScheme", "PreflightMissingAllowExternal",
      "PreflightInvalidAllowExternal", "InvalidResponse" }

IssueCode == HandledIssueCodes \cup UnhandledIssueCodes

\* Protocol.Network.CorsError: the enum's values are its member names.  The view
\* names 10 of them; the others are the remaining members of the protocol enum.
CorsError ==
    { "DisallowedByMode", "InvalidResponse", "WildcardOriginNotAllowed",
      "MissingAllowOriginHeader", "MultipleAllowOriginValues", "InvalidAllowOriginValue",
      "AllowOriginMismatch", "InvalidAllowCredentials", "CorsDisabledScheme",
      "PreflightInvalidStatus", "PreflightDisallowedRedirect",
      "PreflightWildcardOriginNotAllowed", "PreflightMissingAllowOriginHeader",
      "PreflightMultipleAllowOriginValues", "PreflightInvalidAllowOriginValue",
      "PreflightAllowOriginMismatch", "PreflightInvalidAllowCredentials",
      "PreflightMissingAllowExternal", "PreflightInvalidAllowExternal",
      "InvalidAllowMethodsPreflightResponse", "InvalidAllowHeadersPreflightResponse",
      "MethodDisallowedByPreflightResponse", "HeaderDisallowedByPreflightResponse",
      "RedirectContainsCredentials", "InsecurePrivateNetwork" }

(***************************************************************************)
(* Cells and rows (AffectedResourcesView helpers)                          *)
(***************************************************************************)
\* appendColumnTitle(header, title): one title cell more in the header row.
appendColumnTitle(header, title) ==
    [header EXCEPT !.cells = Append(@, [kind |-> "title", text |-> title,
                                        class |-> "affected-resource-header",
                                        request |-> 0, linkToPreflight |-> FALSE])]

\* appendIssueDetailCell(element, textContent, additionalClass)
appendIssueDetailCell(element, textContent, additionalClass) ==
    [element EXCEPT !.cells = Append(@, [kind |-> "detail", text |-> textContent,
                                         class |-> additionalClass,
                                         request |-> 0, linkToPreflight |-> FALSE])]

\* createRequestCell(request, {linkToPreflight})
createRequestCell(request, linkToPreflight) ==
    [kind |-> "request", text |-> "", class |-> "",
     request |-> request, linkToPreflight |-> linkToPreflight]

\* element.appendChild(cell)
appendChild(element, cell) == [element EXCEPT !.cells = Append(@, cell)]

\* document.createElement('tr')
createRow == [class |-> "", cells |-> <<>>]

\* AffectedResourcesView.clear(): the container is emptied.
clear(container) == <<>>

\* Platform.assertUnhandled(issueCode), as the specification describes it: the
\* fatal "unhandled variant" assertion.
assertUnhandled(issueCode) == Throw("unhandled variant")

(***************************************************************************)
(* CorsIssueDetailsView                                                    *)
(***************************************************************************)
appendStatus(element, isWarning) ==
    appendChild(element,
        IF isWarning
        THEN [kind |-> "status", text |-> "warning",
              class |-> "affected-resource-report-only-status",
              request |-> 0, linkToPreflight |-> FALSE]
        ELSE [kind |-> "status", text |-> "blocked",
              class |-> "affected-resource-blocked-status",
              request |-> 0, linkToPreflight |-> FALSE])

\* The header row of appendDetails: Return(row) or the throw of the default branch.
headerRow(issueCode) ==
    \* (the Allow-Credentials title is written without the backquotes of the UI string)
    LET h0 == appendColumnTitle(appendColumnTitle(createRow, "Request"), "Status")
        pre == "Preflight Request (if problematic)"
    IN  CASE issueCode = "InvalidHeaderValues" ->
               Return(appendColumnTitle(appendColumnTitle(appendColumnTitle(
                      appendColumnTitle(h0, pre), "Header"), "Problem"),
                      "Invalid Value (if available)"))
          [] issueCode = "WildcardOriginNotAllowed" ->
               Return(appendColumnTitle(h0, pre))
          [] issueCode = "PreflightResponseInvalid" ->
               Return(appendColumnTitle(appendColumnTitle(h0, "Preflight Request"), "Problem"))
          [] issueCode = "OriginMismatch" ->
               Return(appendColumnTitle(appendColumnTitle(appendColumnTitle(h0, pre),
                      "Initiator Context"), "Allowed Origin (from header)"))
          [] issueCode = "AllowCredentialsRequired" ->
               Return(appendColumnTitle(appendColumnTitle(h0, pre),
                      "Access-Control-Allow-Credentials Header Value"))
          [] issueCode \in {"InsecurePrivateNetwork", "InsecurePrivateNetworkPreflight"} ->
               Return(appendColumnTitle(appendColumnTitle(appendColumnTitle(h0,
                      "Resource Address"), "Initiator Address"), "Initiator Context"))
          [] issueCode = "MethodDisallowedByPreflightResponse" ->
               Return(appendColumnTitle(appendColumnTitle(h0, "Preflight Request"),
                      "Disallowed Request Method"))
          [] issueCode = "HeaderDisallowedByPreflightResponse" ->
               Return(appendColumnTitle(appendColumnTitle(h0, "Preflight Request"),
                      "Disallowed Request Header"))
          [] issueCode = "RedirectContainsCredentials" ->
               Return(h0)
          [] OTHER ->
               LET a == assertUnhandled(issueCode) IN IF a.threw THEN a ELSE Return(h0)

\* A bug: undefined is tested as falsy and renders "insecure".
appendSecureContextCellFalsy(element, isSecureContext) ==
    appendIssueDetailCell(element,
        IF isSecureContext # None /\ isSecureContext[1] THEN "secure" ELSE "insecure", "")

appendSecureContextCell(element, isSecureContext) ==
    IF isSecureContext = None
    THEN appendIssueDetailCell(element, "", "")
    ELSE appendIssueDetailCell(element, IF isSecureContext[1] THEN "secure" ELSE "insecure", "")

\* A bug: the two non-preflight cases for a missing or multiple header are missing.
getHeaderFromErrorFewerCases(corsError) ==
    CASE corsError = "InvalidAllowHeadersPreflightResponse" ->
           Return("Access-Control-Allow-Headers")
      [] corsError = "InvalidAllowMethodsPreflightResponse" ->
           Return("Access-Control-Allow-Methods")
      [] corsError \in {"PreflightMissingAllowOriginHeader", "PreflightMultipleAllowOriginValues",
                        "PreflightInvalidAllowOriginValue", "InvalidAllowOriginValue"} ->
           Return("Access-Control-Allow-Origin")
      [] OTHER -> Throw("Invalid Argument")

getHeaderFromError(corsError) ==
    CASE corsError = "InvalidAllowHeadersPreflightResponse" ->
           Return("Access-Control-Allow-Headers")
      [] corsError = "InvalidAllowMethodsPreflightResponse" ->
           Return("Access-Control-Allow-Methods")
      [] corsError \in {"PreflightMissingAllowOriginHeader", "PreflightMultipleAllowOriginValues",
                        "PreflightInvalidAllowOriginValue", "MissingAllowOriginHeader",
                        "MultipleAllowOriginValues", "InvalidAllowOriginValue"} ->
           Return("Access-Control-Allow-Origin")
      [] OTHER -> Throw("Invalid Argument")

\* A bug: the redirect falls through to the case of the invalid status.
getProblemFromErrorRedirectAsStatus(corsErrorStatus) ==
    LET corsError == corsErrorStatus.corsError
    IN  CASE corsError \in {"InvalidAllowHeadersPreflightResponse",
                            "InvalidAllowMethodsPreflightResponse",
                            "PreflightInvalidAllowOriginValue", "InvalidAllowOriginValue"} ->
               Return("Invalid Value")
          [] corsError \in {"PreflightMultipleAllowOriginValues", "MultipleAllowOriginValues"} ->
               Return("Multiple Values")
          [] corsError \in {"MissingAllowOriginHeader", "PreflightMissingAllowOriginHeader"} ->
               Return("Missing Header")
          [] corsError \in {"PreflightInvalidStatus", "PreflightDisallowedRedirect"} ->
               Return("HTTP status of preflight request didn't indicate success")
          [] OTHER -> Throw("Invalid Argument")

getProblemFromError(corsErrorStatus) ==
    LET corsError == corsErrorStatus.corsError
    IN  CASE corsError \in {"InvalidAllowHeadersPreflightResponse",
                            "InvalidAllowMethodsPreflightResponse",
                            "PreflightInvalidAllowOriginValue", "InvalidAllowOriginValue"} ->
               Return("Invalid Value")
          [] corsError \in {"PreflightMultipleAllowOriginValues", "MultipleAllowOriginValues"} ->
               Return("Multiple Values")
          [] corsError \in {"MissingAllowOriginHeader", "PreflightMissingAllowOriginHeader"} ->
               Return("Missing Header")
          [] corsError = "PreflightInvalidStatus" ->
               Return("HTTP status of preflight request didn't indicate success")
          [] corsError = "PreflightDisallowedRedirect" ->
               Return("Response to preflight was a redirect")
          [] OTHER -> Throw("Invalid Argument")

\* A bug: the else branch is missing, no empty cell keeps the column.
appendPreflightWithoutElse(element, details) ==
    IF includes(details.corsErrorStatus.corsError, "Preflight")
    THEN appendChild(element, createRequestCell(details.request, TRUE))
    ELSE element

\* A bug: startsWith in place of includes.
appendPreflightIfPrefixed(element, details) ==
    IF SubSeq(details.corsErrorStatus.corsError, 1, 9) = "Preflight"
    THEN appendChild(element, createRequestCell(details.request, TRUE))
    ELSE appendIssueDetailCell(element, "", "")

\* if (corsError.includes('Preflight')) { preflight request cell } else { empty cell }
appendPreflightIfProblematic(element, details) ==
    IF includes(details.corsErrorStatus.corsError, "Preflight")
    THEN appendChild(element, createRequestCell(details.request, TRUE))
    ELSE appendIssueDetailCell(element, "", "")

\* clientSecurityState?.field
OptionalField(clientSecurityState, field) ==
    IF clientSecurityState = None THEN None ELSE clientSecurityState[1][field]

\* appendDetail up to the switch: the row with its request and status cells.
rowStart(details) ==
    appendStatus(appendChild([class |-> "affected-resource-directive", cells |-> <<>>],
                             createRequestCell(details.request, FALSE)),
                 details.isWarning)

\* appendDetail: Return(the row it appends to affectedResources) or the throw
\* that leaves before the row is appended.
appendDetail(issueCode, details) ==
    LET e0 == rowStart(details)
        status == details.corsErrorStatus
    IN  CASE issueCode = "InvalidHeaderValues" ->
               LET e1 == appendPreflightIfProblematic(e0, details)
                   h == getHeaderFromError(status.corsError)
                   p == getProblemFromError(status)
               IN  IF h.threw THEN h
                   ELSE IF p.threw THEN p
                   ELSE Return(appendIssueDetailCell(appendIssueDetailCell(
                            appendIssueDetailCell(e1, h.value, "code-example"),
                            p.value, ""), status.failedParameter, "code-example"))
          [] issueCode = "WildcardOriginNotAllowed" ->
               Return(appendPreflightIfProblematic(e0, details))
          [] issueCode = "PreflightResponseInvalid" ->
               LET e1 == appendChild(e0, createRequestCell(details.request, TRUE))
                   p == getProblemFromError(status)
               IN  IF p.threw THEN p ELSE Return(appendIssueDetailCell(e1, p.value, ""))
          [] issueCode = "OriginMismatch" ->
               Return(appendIssueDetailCell(appendIssueDetailCell(
                      appendPreflightIfProblematic(e0, details),
                      Coalesce(details.initiatorOrigin, ""), "code-example"),
                      status.failedParameter, "code-example"))
          [] issueCode = "AllowCredentialsRequired" ->
               Return(appendIssueDetailCell(appendPreflightIfProblematic(e0, details),
                      status.failedParameter, "code-example"))
          [] issueCode \in {"InsecurePrivateNetwork", "InsecurePrivateNetworkPreflight"} ->
               Return(appendSecureContextCell(
                      appendIssueDetailCell(
                          appendIssueDetailCell(e0, Coalesce(details.resourceIPAddressSpace, ""), ""),
                          Coalesce(OptionalField(details.clientSecurityState,
                                                 "initiatorIPAddressSpace"), ""), ""),
                      OptionalField(details.clientSecurityState, "initiatorIsSecureContext")))
          [] issueCode = "MethodDisallowedByPreflightResponse" ->
               Return(appendIssueDetailCell(
                      appendChild(e0, createRequestCell(details.request, TRUE)),
                      status.failedParameter, "code-example"))
          [] issueCode = "HeaderDisallowedByPreflightResponse" ->
               Return(appendIssueDetailCell(
                      appendChild(e0, createRequestCell(details.request, TRUE)),
                      status.failedParameter, "code-example"))
          [] issueCode = "RedirectContainsCredentials" ->
               Return(e0)
          [] OTHER ->
               LET a == assertUnhandled(issueCode) IN IF a.threw THEN a ELSE Return(e0)

\* The result of a call that renders: the container, the count it reported (if any)
\* and whether it threw.
Rendered(container, reported, threw) ==
    [affectedResources |-> container, reported |-> reported, threw |-> threw]

\* A bug: the reported count is the number of rows, the header included.
RECURSIVE appendRowsCountingHeader(_, _, _, _)
appendRowsCountingHeader(issueCode, issues, count, container) ==
    IF count = Len(issues)
    THEN Rendered(container, Some(Len(container)), FALSE)
    ELSE LET r == appendDetail(issueCode, issues[count + 1].details)
         IN  IF r.threw
             THEN Rendered(container, None, TRUE)
             ELSE appendRowsCountingHeader(issueCode, issues, count + 1,
                                           Append(container, r.value))

\* A bug: the throw of a row is caught, the row skipped and the loop goes on.
RECURSIVE appendRowsSkippingFailed(_, _, _, _)
appendRowsSkippingFailed(issueCode, issues, count, container) ==
    IF count = Len(issues)
    THEN Rendered(container, Some(count), FALSE)
    ELSE LET r == appendDetail(issueCode, issues[count + 1].details)
         IN  appendRowsSkippingFailed(issueCode, issues, count + 1,
                 IF r.threw THEN container ELSE Append(container, r.value))

\* A bug: every row is rendered under the code of its own issue.
RECURSIVE appendRowsOwnCode(_, _, _, _)
appendRowsOwnCode(issueCode, issues, count, container) ==
    IF count = Len(issues)
    THEN Rendered(container, Some(count), FALSE)
    ELSE LET r == appendDetail(issues[count + 1].code, issues[count + 1].details)
         IN  IF r.threw
             THEN Rendered(container, None, TRUE)
             ELSE appendRowsOwnCode(issueCode, issues, count + 1, Append(container, r.value))

\* for (const issue of issues) { count++; this.appendDetail(issueCode, issue); }
\* followed by updateAffectedResourceCount(count).
RECURSIVE appendRows(_, _, _, _)
appendRows(issueCode, issues, count, container) ==
    IF count = Len(issues)
    THEN Rendered(container, Some(count), FALSE)
    ELSE LET r == appendDetail(issueCode, issues[count + 1].details)
         IN  IF r.threw
             THEN Rendered(container, None, TRUE)
             ELSE appendRows(issueCode, issues, count + 1, Append(container, r.value))

appendDetails(issueCode, issues, container) ==
    LET header == headerRow(issueCode)
    IN  IF header.threw
        THEN Rendered(container, None, TRUE)
        ELSE appendRows(issueCode, issues, 0, Append(container, header.value))

\* A bug: update() without its clear().
updateWithoutClear(issues, container) ==
    IF Len(issues) > 0
    THEN appendDetails(issues[1].code, issues, container)
    ELSE Rendered(container, Some(0), FALSE)

\* A bug: update() without its else branch, nothing is reported for no issues.
updateWithoutElse(issues, container) ==
    LET cleared == clear(container)
    IN  IF Len(issues) > 0
        THEN appendDetails(issues[1].code, issues, cleared)
        ELSE Rendered(cleared, None, FALSE)

\* update() on container: clear, then render the issues under the code of the
\* first one, or report 0.
update(issues, container) ==
    LET cleared == clear(container)
    IN  IF Len(issues) > 0
        THEN appendDetails(issues[1].code, issues, cleared)
        ELSE Rendered(cleared, Some(0), FALSE)

(***************************************************************************)
(* Inputs                                                                  *)
(***************************************************************************)
Optional(S) == {None} \cup {Some(v) : v \in S}

IPAddressSpace == {"Private"}

ClientSecurityState ==
    [initiatorIPAddressSpace : Optional(IPAddressSpace),
     initiatorIsSecureContext : Optional(BOOLEAN)]

\* issue.details() of every shape, for one request.
AllDetails ==
    [request : {1},
     isWarning : BOOLEAN,
     corsErrorStatus : [corsError : CorsError, failedParameter : {"", "*"}],
     initiatorOrigin : Optional({"https://a.test"}),
     resourceIPAddressSpace : Optional(IPAddressSpace),
     clientSecurityState : Optional(ClientSecurityState)]

AllIssues == [code : IssueCode, details : AllDetails]

\* One issue of the pool: request r, the given code and error kind.
PoolIssue(r, code, corsError) ==
    [code |-> code,
     details |-> [request |-> r,
                  isWarning |-> (r = 1),
                  corsErrorStatus |-> [corsError |-> corsError, failedParameter |-> "*"],
                  initiatorOrigin |-> IF r = 1 THEN Some("https://a.test") ELSE None,
                  resourceIPAddressSpace |-> IF r = 1 THEN None ELSE Some("Private"),
                  clientSecurityState |->
                      IF r = 1 THEN None
                      ELSE Some([initiatorIPAddressSpace |-> Some("Private"),
                                 initiatorIsSecureContext |-> Some(FALSE)])]]

\* The issues the aggregated issue can collect in Spec.
IssuePool ==
    { PoolIssue(1, "InvalidHeaderValues", "InvalidAllowHeadersPreflightResponse"),
      PoolIssue(2, "InvalidHeaderValues", "MissingAllowOriginHeader"),
      PoolIssue(3, "InvalidHeaderValues", "PreflightInvalidStatus"),
      PoolIssue(1, "WildcardOriginNotAllowed", "PreflightWildcardOriginNotAllowed"),
      PoolIssue(2, "WildcardOriginNotAllowed", "WildcardOriginNotAllowed"),
      PoolIssue(1, "PreflightResponseInvalid", "PreflightInvalidStatus"),
      PoolIssue(2, "PreflightResponseInvalid", "DisallowedByMode"),
      PoolIssue(1, "OriginMismatch", "AllowOriginMismatch"),
      PoolIssue(2, "AllowCredentialsRequired", "PreflightInvalidAllowCredentials"),
      PoolIssue(2, "InsecurePrivateNetwork", "InsecurePrivateNetwork"),
      PoolIssue(3, "InsecurePrivateNetworkPreflight", "InsecurePrivateNetwork"),
      PoolIssue(1, "MethodDisallowedByPreflightResponse", "MethodDisallowedByPreflightResponse"),
      PoolIssue(2, "HeaderDisallowedByPreflightResponse", "HeaderDisallowedByPreflightResponse"),
      PoolIssue(1, "RedirectContainsCredentials", "RedirectContainsCredentials"),
      PoolIssue(2, "DisallowedByMode", "DisallowedByMode"),
      PoolIssue(3, "InvalidResponse", "InvalidResponse") }

(***************************************************************************)
(* State machine                                                           *)
(***************************************************************************)
NoCall == [made |-> FALSE, issues |-> <<>>, reported |-> None, threw |-> FALSE]

\* After construction: nothing rendered, the count element shows 0 resources.
Init ==
    /\ issue = <<>>
    /\ affectedResources = <<>>
    /\ affectedResourcesCount = 0
    /\ lastCall = NoCall

\* The aggregated issue collects one more CORS issue (the view is not told).
AddIssue ==
    /\ Len(issue) < MaxIssues
    /\ \E i \in IssuePool : issue' = Append(issue, i)
    /\ UNCHANGED <<affectedResources, affectedResourcesCount, lastCall>>

\* update() on the issues collected so far.
Update ==
    LET r == update(issue, affectedResources)
    IN  /\ affectedResources' = r.affectedResources
        /\ affectedResourcesCount' =
               IF r.reported = None THEN affectedResourcesCount ELSE r.reported[1]
        /\ lastCall' = [made |-> TRUE, issues |-> issue,
                        reported |-> r.reported, threw |-> r.threw]
        /\ UNCHANGED issue

Next == AddIssue \/ Update

Spec == Init /\ [][Next]_vars

\* The view constructed on an aggregated issue holding one issue of any shape.
InitRow ==
    /\ issue \in {<<i>> : i \in AllIssues}
    /\ affectedResources = <<>>
    /\ affectedResourcesCount = 0
    /\ lastCall = NoCall

NextRow == Update

SpecRow == InitRow /\ [][NextRow]_vars

(***************************************************************************)
(* Properties                                                              *)
(***************************************************************************)
\* What the last update() was called on and what it left.
N == Len(lastCall.issues)
FirstCode == lastCall.issues[1].code
Header == affectedResources[1]
DataRow(k) == affectedResources[k + 1]
DataRows == Len(affectedResources) - 1
DetailsOf(k) == lastCall.issues[k].details
ErrorOf(k) == DetailsOf(k).corsErrorStatus.corsError

IsHeaderRow(row) == row.class = "" /\ \A c \in 1..Len(row.cells) : row.cells[c].kind = "title"
IsDataRow(row) == row.class = "affected-resource-directive"

\* Data row k is the row of the k-th issue: its request link and its status.
IsRowOf(row, details) ==
    /\ IsDataRow(row)
    /\ Len(row.cells) >= 2
    /\ row.cells[1] = [kind |-> "request", text |-> "", class |-> "",
                       request |-> details.request, linkToPreflight |-> FALSE]
    /\ row.cells[2].kind = "status"
    /\ row.cells[2].text = IF details.isWarning THEN "warning" ELSE "blocked"

\* The number of extra columns of each subtype, beyond Request and Status.
ExtraColumns(code) ==
    CASE code = "InvalidHeaderValues" -> 4
      [] code = "WildcardOriginNotAllowed" -> 1
      [] code = "PreflightResponseInvalid" -> 2
      [] code = "OriginMismatch" -> 3
      [] code = "AllowCredentialsRequired" -> 2
      [] code = "InsecurePrivateNetwork" -> 3
      [] code = "InsecurePrivateNetworkPreflight" -> 3
      [] code = "MethodDisallowedByPreflightResponse" -> 2
      [] code = "HeaderDisallowedByPreflightResponse" -> 2
      [] OTHER -> 0

\* The error kinds with a header name, and the name of each.
AllowOriginErrors ==
    { "MissingAllowOriginHeader", "MultipleAllowOriginValues", "InvalidAllowOriginValue",
      "PreflightMissingAllowOriginHeader", "PreflightMultipleAllowOriginValues",
      "PreflightInvalidAllowOriginValue" }
HeaderErrors ==
    AllowOriginErrors \cup
    {"InvalidAllowHeadersPreflightResponse", "InvalidAllowMethodsPreflightResponse"}
HeaderNameOf(e) ==
    IF e = "InvalidAllowHeadersPreflightResponse" THEN "Access-Control-Allow-Headers"
    ELSE IF e = "InvalidAllowMethodsPreflightResponse" THEN "Access-Control-Allow-Methods"
    ELSE "Access-Control-Allow-Origin"

\* The error kinds with a problem phrase, and the phrase of each.
ProblemErrors == HeaderErrors \cup {"PreflightInvalidStatus", "PreflightDisallowedRedirect"}
ProblemPhrases ==
    { "Invalid Value", "Multiple Values", "Missing Header",
      "HTTP status of preflight request didn't indicate success",
      "Response to preflight was a redirect" }
ProblemOf(e) ==
    IF e \in {"MissingAllowOriginHeader", "PreflightMissingAllowOriginHeader"}
    THEN "Missing Header"
    ELSE IF e \in {"MultipleAllowOriginValues", "PreflightMultipleAllowOriginValues"}
    THEN "Multiple Values"
    ELSE IF e = "PreflightInvalidStatus"
    THEN "HTTP status of preflight request didn't indicate success"
    ELSE IF e = "PreflightDisallowedRedirect"
    THEN "Response to preflight was a redirect"
    ELSE "Invalid Value"

\* The error kinds whose name contains "Preflight".
PreflightNamedErrors ==
    { "PreflightInvalidStatus", "PreflightDisallowedRedirect",
      "PreflightWildcardOriginNotAllowed", "PreflightMissingAllowOriginHeader",
      "PreflightMultipleAllowOriginValues", "PreflightInvalidAllowOriginValue",
      "PreflightAllowOriginMismatch", "PreflightInvalidAllowCredentials",
      "PreflightMissingAllowExternal", "PreflightInvalidAllowExternal",
      "InvalidAllowMethodsPreflightResponse", "InvalidAllowHeadersPreflightResponse",
      "MethodDisallowedByPreflightResponse", "HeaderDisallowedByPreflightResponse" }

\* An issue whose row hits a dispatch default when rendered under code.
RowFails(code, e) ==
    \/ code = "InvalidHeaderValues" /\ e \notin HeaderErrors
    \/ code = "PreflightResponseInvalid" /\ e \notin ProblemErrors

\* The issues of the last call before the first one whose row fails.
RowsBeforeFailure ==
    IF \E k \in 1..N : RowFails(FirstCode, ErrorOf(k))
    THEN (CHOOSE k \in 1..N : /\ RowFails(FirstCode, ErrorOf(k))
                              /\ \A j \in 1..(k - 1) : ~RowFails(FirstCode, ErrorOf(j))) - 1
    ELSE N

\* The last call of update() rendered one issue and returned.
RenderedOne == lastCall.made /\ ~lastCall.threw /\ N = 1 /\ Len(affectedResources) = 2

PreflightLinkCell(details) ==
    [kind |-> "request", text |-> "", class |-> "",
     request |-> details.request, linkToPreflight |-> TRUE]
TextCell(text, class) ==
    [kind |-> "detail", text |-> text, class |-> class,
     request |-> 0, linkToPreflight |-> FALSE]

\* C1: whatever issue update() renders, the header row has the two universal
\* columns plus the extra columns of the subtype, and every data row has as many
\* cells as the header has column titles.
C1_HeaderMatchesRows ==
    Len(affectedResources) >= 1 =>
        /\ IsHeaderRow(Header)
        /\ Len(Header.cells) = 2 + ExtraColumns(FirstCode)
        /\ \A k \in 1..DataRows :
               IsDataRow(DataRow(k)) /\ Len(DataRow(k).cells) = Len(Header.cells)

C1_Witness ==
    /\ RenderedOne
    /\ FirstCode = "OriginMismatch"
    /\ ErrorOf(1) = "AllowOriginMismatch"
    /\ Len(Header.cells) = 5
    /\ Len(DataRow(1).cells) = 5

\* C5: under InvalidHeaderValues, WildcardOriginNotAllowed, OriginMismatch and
\* AllowCredentialsRequired the third cell of a data row links to the preflight
\* request exactly when the name of the error kind contains "Preflight" and is
\* an empty cell otherwise; under PreflightResponseInvalid and the two
\* ...DisallowedByPreflightResponse subtypes it always links to the preflight request.
C5_PreflightCell ==
    RenderedOne =>
        LET cell == DataRow(1).cells[3]
        IN  /\ FirstCode \in {"InvalidHeaderValues", "WildcardOriginNotAllowed",
                              "OriginMismatch", "AllowCredentialsRequired"} =>
                   cell = IF ErrorOf(1) \in PreflightNamedErrors
                          THEN PreflightLinkCell(DetailsOf(1))
                          ELSE TextCell("", "")
            /\ FirstCode \in {"PreflightResponseInvalid",
                              "MethodDisallowedByPreflightResponse",
                              "HeaderDisallowedByPreflightResponse"} =>
                   cell = PreflightLinkCell(DetailsOf(1))

C5_Witness ==
    /\ RenderedOne
    /\ FirstCode = "InvalidHeaderValues"
    /\ ErrorOf(1) = "InvalidAllowHeadersPreflightResponse"
    /\ DataRow(1).cells[3].linkToPreflight

\* C6: under InsecurePrivateNetwork and InsecurePrivateNetworkPreflight the row is
\* always rendered; its third extra cell reads "secure", "insecure" or nothing as
\* initiatorIsSecureContext is true, false or undefined (also when there is no
\* client security state), and a missing address space is an empty cell.
C6_SecureContextCell ==
    (lastCall.made /\ N = 1
        /\ FirstCode \in {"InsecurePrivateNetwork", "InsecurePrivateNetworkPreflight"}) =>
        LET d == DetailsOf(1)
            css == d.clientSecurityState
            secure == IF css = None THEN None ELSE css[1].initiatorIsSecureContext
            address == IF css = None THEN None ELSE css[1].initiatorIPAddressSpace
        IN  /\ RenderedOne
            /\ Len(DataRow(1).cells) = 5
            /\ DataRow(1).cells[3] =
                   TextCell(IF d.resourceIPAddressSpace = None THEN ""
                            ELSE d.resourceIPAddressSpace[1], "")
            /\ DataRow(1).cells[4] = TextCell(IF address = None THEN "" ELSE address[1], "")
            /\ DataRow(1).cells[5] =
                   TextCell(IF secure = None THEN ""
                            ELSE IF secure[1] THEN "secure" ELSE "insecure", "")

C6_Witness ==
    /\ RenderedOne
    /\ FirstCode = "InsecurePrivateNetwork"
    /\ DetailsOf(1).clientSecurityState # None
    /\ DetailsOf(1).clientSecurityState[1].initiatorIsSecureContext = None
    /\ DetailsOf(1).clientSecurityState[1].initiatorIPAddressSpace = None
    /\ DataRow(1).cells[5].text = ""

\* C7: getHeaderFromError names a header for exactly 8 error kinds (Allow-Headers,
\* Allow-Methods, and Allow-Origin for the 6 allow-origin kinds) and throws for
\* every other kind; seen in the Header cell of an InvalidHeaderValues row.
C7_HeaderFromError ==
    /\ Cardinality(HeaderErrors) = 8
    /\ {e \in CorsError : ~getHeaderFromError(e).threw} = HeaderErrors
    /\ (lastCall.made /\ N = 1 /\ FirstCode = "InvalidHeaderValues") =>
           IF ErrorOf(1) \in HeaderErrors
           THEN /\ RenderedOne
                /\ DataRow(1).cells[4] = TextCell(HeaderNameOf(ErrorOf(1)), "code-example")
           ELSE /\ lastCall.threw
                /\ DataRows = 0

C7_Witness ==
    /\ RenderedOne
    /\ FirstCode = "InvalidHeaderValues"
    /\ ErrorOf(1) = "MissingAllowOriginHeader"
    /\ DataRow(1).cells[4].text = "Access-Control-Allow-Origin"

\* C8: getProblemFromError gives each of its 10 error kinds one of 5 phrases (the
\* redirect has its own) and throws for every other kind, and it accepts every
\* kind getHeaderFromError accepts; seen in the Problem cell of a
\* PreflightResponseInvalid row and of an InvalidHeaderValues row.
C8_ProblemFromError ==
    /\ Cardinality(ProblemPhrases) = 5
    /\ {getProblemFromError([corsError |-> e, failedParameter |-> ""]).value :
            e \in ProblemErrors} = ProblemPhrases
    /\ \A e \in CorsError :
           ~getHeaderFromError(e).threw =>
               ~getProblemFromError([corsError |-> e, failedParameter |-> ""]).threw
    /\ (lastCall.made /\ N = 1 /\ FirstCode = "PreflightResponseInvalid") =>
           IF ErrorOf(1) \in ProblemErrors
           THEN /\ RenderedOne
                /\ DataRow(1).cells[4] = TextCell(ProblemOf(ErrorOf(1)), "")
           ELSE /\ lastCall.threw
                /\ DataRows = 0
    /\ (RenderedOne /\ FirstCode = "InvalidHeaderValues") =>
           DataRow(1).cells[5] = TextCell(ProblemOf(ErrorOf(1)), "")

C8_Witness ==
    /\ RenderedOne
    /\ FirstCode = "PreflightResponseInvalid"
    /\ ErrorOf(1) = "PreflightDisallowedRedirect"
    /\ DataRow(1).cells[4].text = "Response to preflight was a redirect"

\* The last call was made on N > 0 issues that all have one handled subtype.
OneHandledSubtype ==
    /\ lastCall.made
    /\ N > 0
    /\ FirstCode \in HandledIssueCodes
    /\ \A k \in 1..N : lastCall.issues[k].code = FirstCode

\* The container holds a header row and the rows of all N issues, in order, and
\* N was reported.
HeaderAndAllRows ==
    /\ Len(affectedResources) = N + 1
    /\ IsHeaderRow(Header)
    /\ \A k \in 1..N : IsRowOf(DataRow(k), DetailsOf(k))
    /\ lastCall.reported = Some(N)
    /\ affectedResourcesCount = N

\* C2 as stated: update() on N > 0 records of a handled subtype leaves 1 header row
\* and N data rows, one per record in order, and reports N.
C2_Original == OneHandledSubtype => HeaderAndAllRows

\* C2, amended: the same, for records none of which has an error kind outside the
\* kinds the subtype's lookups map (InvalidHeaderValues: the 8 kinds with a header
\* name; PreflightResponseInvalid: the 10 kinds with a problem phrase).
C2_HeaderAndRows ==
    (OneHandledSubtype /\ \A k \in 1..N : ~RowFails(FirstCode, ErrorOf(k))) =>
        ~lastCall.threw /\ HeaderAndAllRows

C2_Witness ==
    /\ OneHandledSubtype
    /\ N = 3
    /\ FirstCode = "InvalidHeaderValues"
    /\ ErrorOf(1) # ErrorOf(2)
    /\ Len(affectedResources) = 4
    /\ affectedResourcesCount = 3

\* C3: update() on no records reports 0 and leaves the container without any row.
C3_EmptyReportsZero ==
    (lastCall.made /\ N = 0) =>
        /\ ~lastCall.threw
        /\ affectedResources = <<>>
        /\ lastCall.reported = Some(0)
        /\ affectedResourcesCount = 0

C3_Witness ==
    /\ lastCall.made
    /\ N = 0
    /\ lastCall.reported = Some(0)
    /\ affectedResources = <<>>

\* C4 as stated: after any sequence of update() calls the container holds only the
\* rows of the last call, 1 header and N rows or nothing for no records, and the
\* last reported count is N (so a repeated call changes nothing).
C4_Original ==
    lastCall.made =>
        /\ affectedResourcesCount = N
        /\ IF N = 0
           THEN affectedResources = <<>>
           ELSE /\ Len(affectedResources) = N + 1
                /\ IsHeaderRow(Header)
                /\ \A k \in 1..N : IsRowOf(DataRow(k), DetailsOf(k))

\* What the last call left: nothing of an earlier call; all of its own rows and
\* its count when it returned, a prefix of them when it threw.
LastCallContent ==
    lastCall.made =>
        /\ Len(affectedResources) >= 1 => IsHeaderRow(Header)
        /\ \A k \in 1..DataRows : k <= N /\ IsRowOf(DataRow(k), DetailsOf(k))
        /\ IF lastCall.threw
           THEN Len(affectedResources) <= N /\ lastCall.reported = None
           ELSE /\ Len(affectedResources) = IF N = 0 THEN 0 ELSE N + 1
                /\ lastCall.reported = Some(N)
                /\ affectedResourcesCount = N

\* C4, amended: every update() clears what was rendered before; after any sequence
\* of calls the container holds rows of the last call only, all of them (1 header
\* and N rows, or nothing for no records) with the reported count N when that call
\* returned; and update() repeated on unchanged records changes neither the
\* content nor the count.
C4_ClearRenderReport ==
    [][ /\ LastCallContent'
        /\ (lastCall.made /\ lastCall.issues = issue /\ issue' = issue) =>
               /\ affectedResources' = affectedResources
               /\ affectedResourcesCount' = affectedResourcesCount ]_vars

C4_Witness ==
    /\ lastCall.made
    /\ ~lastCall.threw
    /\ N = 3
    /\ Len(affectedResources) = 4
    /\ affectedResourcesCount = 3
    /\ FirstCode = "OriginMismatch"

\* The last call was made on records that reach a dispatch default.
UnhandledSubtype == lastCall.made /\ N > 0 /\ FirstCode \in UnhandledIssueCodes
FailingRow ==
    /\ lastCall.made
    /\ N > 0
    /\ FirstCode \in HandledIssueCodes
    /\ \E k \in 1..N : RowFails(FirstCode, ErrorOf(k))

\* The call threw and reported nothing; the container holds the header and the
\* rows of the first `rows` records.
FailedAfter(rows) ==
    /\ lastCall.threw
    /\ lastCall.reported = None
    /\ Len(affectedResources) = rows + 1
    /\ IsHeaderRow(Header)
    /\ \A k \in 1..rows : IsRowOf(DataRow(k), DetailsOf(k))

\* C9 as stated: a call that reaches a dispatch default (an unhandled subtype, or
\* an unmapped error kind under InvalidHeaderValues or PreflightResponseInvalid)
\* throws, reports no count, and leaves the header and the rows of the records
\* before the failing one.
C9_Original ==
    /\ UnhandledSubtype => FailedAfter(0)
    /\ FailingRow => FailedAfter(RowsBeforeFailure)

\* C9, amended: as stated for an unmapped error kind; for an unhandled subtype the
\* call fails in the header dispatch, before the header row is appended, and the
\* cleared container stays empty.
C9_FatalDispatch ==
    /\ UnhandledSubtype =>
           lastCall.threw /\ lastCall.reported = None /\ affectedResources = <<>>
    /\ FailingRow => FailedAfter(RowsBeforeFailure)

C9_Witness ==
    /\ FailingRow
    /\ N = 3
    /\ RowsBeforeFailure = 1
    /\ Len(affectedResources) = 2
    /\ lastCall.threw
    /\ affectedResourcesCount = 1

\* C10: the header and every data row are those of the subtype of the first
\* record, whatever the subtypes of the later records: each row is its record
\* rendered under the first subtype and has one cell per column of the header.
C10_FirstCodeDecides ==
    Len(affectedResources) >= 1 =>
        /\ IsHeaderRow(Header)
        /\ Len(Header.cells) = 2 + ExtraColumns(FirstCode)
        /\ \A k \in 1..DataRows :
               /\ IsRowOf(DataRow(k), DetailsOf(k))
               /\ Len(DataRow(k).cells) = Len(Header.cells)
               /\ DataRow(k) = appendDetail(FirstCode, DetailsOf(k)).value

C10_Witness ==
    /\ lastCall.made
    /\ ~lastCall.threw
    /\ N = 2
    /\ FirstCode = "WildcardOriginNotAllowed"
    /\ lastCall.issues[2].code = "InvalidHeaderValues"
    /\ Len(affectedResources) = 3
    /\ Len(DataRow(2).cells) = 3
====
